---- MODULE Spec2Model ----
(***************************************************************************)
(* Model of torch/_decomp/decompositions_for_rng.py: the Philox offset     *)
(* calculator, PhiloxState, the PhiloxStateTracker singleton, the guarded  *)
(* rand / rand_like decompositions, RNGStateHelper.                        *)
(*                                                                         *)
(* A tensor is modelled by the sequence of its elements: <<>> is the empty *)
(* tensor torch.Tensor(()), <<v>> a one-element tensor, <<s, o>> the       *)
(* stacked state tensor.  numel is Len.  Tensor rank is not modelled.      *)
(***************************************************************************)
EXTENDS Integers, Sequences, FiniteSets, TLC

\* ------------------------------------------------------------------ bounds
\* cap on every relative_offset (guards of the advancing operations)
MaxRel == 8
\* cap on every base_offset installed by set_state_from_tensor
MaxBase == 8
\* longest shape handed to rand_offset_calculator on its own
MaxRank == 2
\* cap on the sum of the amounts handed to advance_torch_state since the
\* device state was last installed
MaxHostAdvance == 8

\* ------------------------------------------------------- program constants
block_size == 256
unroll == 4
curand4_engine_calls == 4
\* length of the prefix of the device RNG state, and of its two fields
PrefixLen == 800
FieldLen == 8

\* ------------------------------------------------------------ input domains
\* device properties returned by torch.cuda.get_device_properties
DeviceProperties ==
    { [multi_processor_count |-> 1, max_threads_per_multi_processor |-> 256],
      [multi_processor_count |-> 2, max_threads_per_multi_processor |-> 640],
      [multi_processor_count |-> 3, max_threads_per_multi_processor |-> 1024] }

\* device properties in force when a decomposition runs
DrawDeviceProperties ==
    { [multi_processor_count |-> 1, max_threads_per_multi_processor |-> 256],
      [multi_processor_count |-> 2, max_threads_per_multi_processor |-> 640] }

\* shapes handed to the decompositions
Shapes == { <<4, 4>>, <<1025>>, <<0>> }

\* dimension sizes and shapes handed to rand_offset_calculator on its own
Dims == { 0, 1, 4, 256, 257, 1025 }
CalcShapes == UNION { [1..k -> Dims] : k \in 0..MaxRank }

\* the device argument: "None" is an omitted argument
Devices == { "None", "cuda", "cpu" }
TensorDevices == { "cuda", "cpu" }

\* (seed, offset) pairs handed to record_state
RecordInputs == { <<<<1>>, <<0>>>>, <<<<2>>, <<4>>>>, <<<<>>, <<0>>>> }
Modes == { "forward", "backward", "inference" }

\* amounts handed to advance_offset
AdvanceAmounts == { 0, 4 }

\* state tensors handed to set_state_from_tensor besides a saved one
StateTensors == { <<1, 0>>, <<2, 4>> }

\* (seed, offset) held by the device at the start; seeds and offsets handed
\* to set_torch_state_tensor; amounts handed to advance_torch_state
HostInitial == { <<42, 0>>, <<300, 7>> }
HostSeeds == { -1, 42, 300 }
HostOffsets == { 0, 7, 250 }
HostAdvances == { 1, 4 }

\* ------------------------------------------------------------ arithmetic
Min(a, b) == IF a <= b THEN a ELSE b

\* int(a / b) of Python for b > 0: true division, then truncation toward 0
TruncDiv(a, b) == IF a >= 0 THEN a \div b ELSE -((-a) \div b)

RECURSIVE numel(_)
numel(shape) == IF shape = <<>> THEN 1 ELSE Head(shape) * numel(Tail(shape))

\* variant: grid_size is not clamped to the device's resident blocks
rand_offset_calculator_unclamped(shape, device_property) ==
    LET n == numel(shape)
        grid_size == TruncDiv(n + block_size - 1, block_size)
        den == block_size * grid_size * unroll
    IN  IF den = 0
        THEN [exc |-> "ZeroDivisionError", offset |-> 0]
        ELSE [exc |-> "none",
              offset |-> TruncDiv((n - 1) + den, den) * curand4_engine_calls]

\* variant: the quotient is not rounded up (the + 1 is missing)
rand_offset_calculator_floor(shape, device_property) ==
    LET n == numel(shape)
        blocks_per_sm ==
            TruncDiv(device_property.max_threads_per_multi_processor, block_size)
        grid_size0 == TruncDiv(n + block_size - 1, block_size)
        grid_size ==
            Min(grid_size0, device_property.multi_processor_count * blocks_per_sm)
        den == block_size * grid_size * unroll
    IN  IF den = 0
        THEN [exc |-> "ZeroDivisionError", offset |-> 0]
        ELSE [exc |-> "none",
              offset |-> TruncDiv(n - 1, den) * curand4_engine_calls]

\* rand_offset_calculator: [exc, offset]; exc = "ZeroDivisionError" when the
\* divisor block_size * grid_size * unroll is 0
rand_offset_calculator(shape, device_property) ==
    LET n == numel(shape)
        blocks_per_sm ==
            TruncDiv(device_property.max_threads_per_multi_processor, block_size)
        grid_size0 == TruncDiv(n + block_size - 1, block_size)
        grid_size ==
            Min(grid_size0, device_property.multi_processor_count * blocks_per_sm)
        den == block_size * grid_size * unroll
    IN  IF den = 0
        THEN [exc |-> "ZeroDivisionError", offset |-> 0]
        ELSE [exc |-> "none",
              offset |-> TruncDiv((n - 1) + den, den) * curand4_engine_calls]

\* ------------------------------------------------------------ PhiloxState
PhiloxState_reset == [seed |-> <<>>, base_offset |-> <<>>, relative_offset |-> 0]

PhiloxState_validate_state(st) == Len(st.seed) # 0 /\ Len(st.base_offset) # 0

\* variant: relative_offset = consumed_offset instead of +=
PhiloxState_advance_offset_assign(st, consumed_offset) ==
    [st EXCEPT !.relative_offset = consumed_offset]

PhiloxState_advance_offset(st, consumed_offset) ==
    [st EXCEPT !.relative_offset = @ + consumed_offset]

\* variant: relative_offset is not assigned
PhiloxState_set_state_keeps_relative(st, seed, base_offset) ==
    [seed |-> seed, base_offset |-> base_offset,
     relative_offset |-> st.relative_offset]

PhiloxState_set_state(st, seed, base_offset) ==
    [seed |-> seed, base_offset |-> base_offset, relative_offset |-> 0]

\* base_offset + relative_offset, a one-element tensor plus a Python int
EffectiveOffset(st) == st.base_offset[1] + st.relative_offset

\* variant: an unpopulated state is read as (0, 0) instead of asserting
PhiloxState_get_state_as_tuple_default(st) ==
    IF Len(st.seed) # 0 /\ Len(st.base_offset) # 0
    THEN [exc |-> "none", ret |-> <<st.seed[1], EffectiveOffset(st)>>]
    ELSE [exc |-> "none", ret |-> <<0, 0>>]

\* [exc, ret]: ret = <<seed, base_offset + relative_offset>>
PhiloxState_get_state_as_tuple(st) ==
    IF PhiloxState_validate_state(st)
    THEN [exc |-> "none", ret |-> <<st.seed[1], EffectiveOffset(st)>>]
    ELSE [exc |-> "AssertionError", ret |-> <<>>]

\* torch.stack([seed, base_offset + relative_offset])
PhiloxState_get_state_as_tensor(st) ==
    IF PhiloxState_validate_state(st)
    THEN [exc |-> "none", ret |-> <<st.seed[1], EffectiveOffset(st)>>]
    ELSE [exc |-> "AssertionError", ret |-> <<>>]

\* variant: relative_offset is not reset
PhiloxState_set_state_from_tensor_keeps_relative(st, state) ==
    IF Len(state) = 2
    THEN [exc |-> "none",
          st |-> [seed |-> <<state[1]>>, base_offset |-> <<state[2]>>,
                  relative_offset |-> st.relative_offset]]
    ELSE [exc |-> "ValueError", st |-> st]

\* torch.split(state, 1) unpacked into exactly two one-element chunks
PhiloxState_set_state_from_tensor(st, state) ==
    IF Len(state) = 2
    THEN [exc |-> "none",
          st |-> [seed |-> <<state[1]>>, base_offset |-> <<state[2]>>,
                  relative_offset |-> 0]]
    ELSE [exc |-> "ValueError", st |-> st]

\* ------------------------------------------------------ PhiloxStateTracker
\* The tracker holds three references.  fwd_state and bwd_state are two
\* distinct objects; running_state is the object "own" created for it by
\* clear(), or an alias of fwd_state or of bwd_state.  Once running_state is
\* repointed the object "own" is unreachable and is kept as a fresh state.
PhiloxStateTracker_clear(t) ==
    [running |-> "own",
     st |-> [own |-> PhiloxState_reset, fwd |-> PhiloxState_reset,
             bwd |-> PhiloxState_reset]]

\* variant: only running_state is replaced
PhiloxStateTracker_mark_end_of_tracing_running_only(t) ==
    [running |-> "own", st |-> [t.st EXCEPT !.own = PhiloxState_reset]]

PhiloxStateTracker_mark_end_of_tracing(t) == PhiloxStateTracker_clear(t)

\* variant: forward tracing starts from a new state
PhiloxStateTracker_mark_beginning_of_forward_fresh(t) ==
    [running |-> "fwd",
     st |-> [t.st EXCEPT !.own = PhiloxState_reset, !.fwd = PhiloxState_reset]]

PhiloxStateTracker_mark_beginning_of_forward(t) ==
    [running |-> "fwd", st |-> [t.st EXCEPT !.own = PhiloxState_reset]]

\* variant: backward tracing starts from a new state
PhiloxStateTracker_mark_beginning_of_backward_fresh(t) ==
    [running |-> "bwd",
     st |-> [t.st EXCEPT !.own = PhiloxState_reset, !.bwd = PhiloxState_reset]]

PhiloxStateTracker_mark_beginning_of_backward(t) ==
    [running |-> "bwd", st |-> [t.st EXCEPT !.own = PhiloxState_reset]]

running_state(t) == t.st[t.running]

\* variant: the else branch does not assert mode == "backward"
PhiloxStateTracker_record_state_unasserted(t, seed, offset, mode) ==
    IF mode = "forward"
    THEN [exc |-> "none",
          t |-> [t EXCEPT !.st.fwd = PhiloxState_set_state(@, seed, offset)]]
    ELSE [exc |-> "none",
          t |-> [t EXCEPT !.st.bwd = PhiloxState_set_state(@, seed, offset)]]

\* variant: the recorded state also becomes the running state
PhiloxStateTracker_record_state_repoints(t, seed, offset, mode) ==
    IF mode = "forward"
    THEN [exc |-> "none",
          t |-> [running |-> "fwd",
                 st |-> [t.st EXCEPT
                            !.fwd = PhiloxState_set_state(@, seed, offset),
                            !.own = PhiloxState_reset]]]
    ELSE IF mode = "backward"
         THEN [exc |-> "none",
               t |-> [running |-> "bwd",
                      st |-> [t.st EXCEPT
                                 !.bwd = PhiloxState_set_state(@, seed, offset),
                                 !.own = PhiloxState_reset]]]
         ELSE [exc |-> "AssertionError", t |-> t]

\* [exc, t]
PhiloxStateTracker_record_state(t, seed, offset, mode) ==
    IF mode = "forward"
    THEN [exc |-> "none",
          t |-> [t EXCEPT !.st.fwd = PhiloxState_set_state(@, seed, offset)]]
    ELSE IF mode = "backward"
         THEN [exc |-> "none",
               t |-> [t EXCEPT !.st.bwd = PhiloxState_set_state(@, seed, offset)]]
         ELSE [exc |-> "AssertionError", t |-> t]

PhiloxStateTracker_get_state_as_tensor(t) ==
    PhiloxState_get_state_as_tensor(running_state(t))

PhiloxStateTracker_get_state_as_tuple(t) ==
    PhiloxState_get_state_as_tuple(running_state(t))

PhiloxStateTracker_set_state_from_tensor(t, x) ==
    LET r == PhiloxState_set_state_from_tensor(running_state(t), x)
    IN  [exc |-> r.exc, t |-> [t EXCEPT !.st[t.running] = r.st]]

PhiloxStateTracker_advance_offset(t, consumed_offset) ==
    [t EXCEPT !.st[t.running] = PhiloxState_advance_offset(@, consumed_offset)]

PhiloxStateTracker_get_current_relative_offset(t) ==
    running_state(t).relative_offset

\* PhiloxTotalOffsets(fwd_offset, bwd_offset)
PhiloxStateTracker_get_accumulated_offsets(t) ==
    <<t.st.fwd.relative_offset, t.st.bwd.relative_offset>>

\* ------------------------------------------------------- decompositions
\* outcome of running an implementation on tracker t: the exception that
\* left it ("none": it returned), the text the exception names, the tracker
\* afterwards, the returned value and whether advance_offset was called
Outcome(exc, msg, t, ret, adv) ==
    [exc |-> exc, msg |-> msg, t |-> t, ret |-> ret, adv |-> adv]

\* raises the RuntimeError whose message names device.type
throw_on_non_cuda(t, device) == Outcome("RuntimeError", device, t, <<>>, FALSE)

\* variant: the state is read after the offset has been advanced
philox_draw_advance_first(t, device_property, shape) ==
    LET c == rand_offset_calculator(shape, device_property)
        t2 == PhiloxStateTracker_advance_offset(t, c.offset)
        s == PhiloxStateTracker_get_state_as_tuple(t2)
    IN  IF s.exc # "none"
        THEN Outcome(s.exc, "", t, <<>>, FALSE)
        ELSE IF c.exc # "none"
             THEN Outcome(c.exc, "", t, <<>>, FALSE)
             ELSE Outcome("none", "", t2, s.ret, TRUE)

\* the part of rand and rand_like after the device has been resolved; the
\* returned tensor philox_rand(shape, seed, offset, ...) is represented by
\* the (seed, offset) it was drawn at
philox_draw(t, device_property, shape) ==
    LET s == PhiloxStateTracker_get_state_as_tuple(t)
        c == rand_offset_calculator(shape, device_property)
    IN  IF s.exc # "none"
        THEN Outcome(s.exc, "", t, <<>>, FALSE)
        ELSE IF c.exc # "none"
             THEN Outcome(c.exc, "", t, <<>>, FALSE)
             ELSE Outcome("none", "",
                          PhiloxStateTracker_advance_offset(t, c.offset),
                          s.ret, TRUE)

\* variant: the device is checked after the draw
rand_checks_device_late(t, device_property, shape, device) ==
    IF device = "None"
    THEN Outcome("AttributeError", "", t, <<>>, FALSE)
    ELSE LET out == philox_draw(t, device_property, shape)
         IN  IF device # "cuda"
             THEN throw_on_non_cuda(out.t, device)
             ELSE out

\* device = device or "cpu" leaves the str "cpu" for an omitted device, and
\* a str has no attribute type
rand(t, device_property, shape, device) ==
    IF device = "None"
    THEN Outcome("AttributeError", "", t, <<>>, FALSE)
    ELSE IF device # "cuda"
         THEN throw_on_non_cuda(t, device)
         ELSE philox_draw(t, device_property, shape)

\* device = device or x.device
rand_like(t, device_property, x_shape, x_device, device) ==
    LET dev == IF device = "None" THEN x_device ELSE device
    IN  IF dev # "cuda"
        THEN throw_on_non_cuda(t, dev)
        ELSE philox_draw(t, device_property, x_shape)

StagnationMessage == "Philox seed offset did not advance after decomposition"

\* variant: the comparison of the two offsets is missing
throw_if_philox_offset_did_not_advance_unchecked(t, out) == out

\* inner of throw_if_philox_offset_did_not_advance: t is the tracker at
\* entry, out the outcome of fn(*args, **kwargs)
throw_if_philox_offset_did_not_advance(t, out) ==
    LET old_relative_offset == PhiloxStateTracker_get_current_relative_offset(t)
        new_relative_offset ==
            PhiloxStateTracker_get_current_relative_offset(out.t)
    IN  IF out.exc # "none"
        THEN out
        ELSE IF old_relative_offset = new_relative_offset
             THEN [out EXCEPT !.exc = "ValueError", !.msg = StagnationMessage,
                              !.ret = <<>>]
             ELSE out

\* An arbitrary registered implementation fn is a sequence of calls of the
\* tracker's methods.
ImplOp(op, n, x) == [op |-> op, n |-> n, x |-> x]
ImplBodies ==
    { <<>>,
      <<ImplOp("get_state_as_tuple", 0, <<>>)>>,
      <<ImplOp("get_state_as_tuple", 0, <<>>), ImplOp("advance_offset", 4, <<>>)>>,
      <<ImplOp("advance_offset", 0, <<>>)>>,
      <<ImplOp("set_state_from_tensor", 0, <<1, 0>>)>>,
      <<ImplOp("mark_beginning_of_backward", 0, <<>>)>>,
      <<ImplOp("mark_beginning_of_forward", 0, <<>>),
        ImplOp("advance_offset", 4, <<>>)>> }

RECURSIVE run_fn(_, _, _)
run_fn(t, body, adv) ==
    IF body = <<>>
    THEN Outcome("none", "", t, <<>>, adv)
    ELSE LET c == Head(body)
         IN  CASE c.op = "advance_offset" ->
                    run_fn(PhiloxStateTracker_advance_offset(t, c.n), Tail(body), TRUE)
               [] c.op = "get_state_as_tuple" ->
                    IF PhiloxStateTracker_get_state_as_tuple(t).exc # "none"
                    THEN Outcome("AssertionError", "", t, <<>>, adv)
                    ELSE run_fn(t, Tail(body), adv)
               [] c.op = "set_state_from_tensor" ->
                    LET r == PhiloxStateTracker_set_state_from_tensor(t, c.x)
                    IN  IF r.exc # "none"
                        THEN Outcome(r.exc, "", t, <<>>, adv)
                        ELSE run_fn(r.t, Tail(body), adv)
               [] c.op = "mark_beginning_of_forward" ->
                    run_fn(PhiloxStateTracker_mark_beginning_of_forward(t),
                           Tail(body), adv)
               [] c.op = "mark_beginning_of_backward" ->
                    run_fn(PhiloxStateTracker_mark_beginning_of_backward(t),
                           Tail(body), adv)

\* ---------------------------------------------------------- RNGStateHelper
\* x.view(torch.uint8) of an int64 tensor of one element: FieldLen bytes,
\* least significant first, two's complement
RECURSIVE int64_as_uint8(_, _)
int64_as_uint8(v, k) ==
    IF k = 0 THEN <<>> ELSE <<v % 256>> \o int64_as_uint8(v \div 256, k - 1)

\* b.view(dtype=torch.int64)[0] of FieldLen bytes
RECURSIVE uint8_as_int64(_)
uint8_as_int64(b) ==
    IF Len(b) = 1
    THEN IF b[1] >= 128 THEN b[1] - 256 ELSE b[1]
    ELSE b[1] + 256 * uint8_as_int64(Tail(b))

\* torch.tensor([-1] * 800, dtype=torch.uint8): -1 wraps to 255
Prefix == [i \in 1..PrefixLen |-> (-1) % 256]

\* The device: whether a cuda device is available, and the RNG state buffer
\* of its default generator.  Its buffer starts as the generator writes it:
\* the prefix, the seed, the offset.
Device(available, rng_state) == [available |-> available, rng_state |-> rng_state]

DeviceBuffer(seed, offset) ==
    Prefix \o int64_as_uint8(seed, FieldLen) \o int64_as_uint8(offset, FieldLen)

torch_cuda_is_available(dev) == dev.available

\* without a device the lazy initialisation of torch.cuda raises
torch_cuda_get_rng_state(dev) ==
    IF dev.available
    THEN [exc |-> "none", ret |-> dev.rng_state]
    ELSE [exc |-> "RuntimeError", ret |-> <<>>]

\* without a device the call is queued for an initialisation that never comes
torch_cuda_set_rng_state(dev, new_state) ==
    IF dev.available
    THEN [exc |-> "none", dev |-> Device(TRUE, new_state)]
    ELSE [exc |-> "none", dev |-> dev]

\* [exc, ret]: ret = <<seed, offset>>; fake_mode only wraps the two values
RNGStateHelper_get_torch_state_as_tuple(dev) ==
    IF ~torch_cuda_is_available(dev)
    THEN [exc |-> "none", ret |-> <<0, 0>>]
    ELSE LET rng_state == torch_cuda_get_rng_state(dev).ret
             seed == uint8_as_int64(
                         SubSeq(rng_state, PrefixLen + 1, PrefixLen + FieldLen))
             offset == uint8_as_int64(
                           SubSeq(SubSeq(rng_state, PrefixLen + FieldLen + 1,
                                         Len(rng_state)), 1, FieldLen))
         IN  [exc |-> "none", ret |-> <<seed, offset>>]

\* variant: the two fields are concatenated in the other order
RNGStateHelper_set_torch_state_tensor_swapped(dev, seed, offset) ==
    torch_cuda_set_rng_state(
        dev, Prefix \o int64_as_uint8(offset, FieldLen)
                    \o int64_as_uint8(seed, FieldLen))

\* [exc, dev]
RNGStateHelper_set_torch_state_tensor(dev, seed, offset) ==
    LET seed_portion == int64_as_uint8(seed, FieldLen)
        offset_portion == int64_as_uint8(offset, FieldLen)
        prefix == Prefix
        new_state == prefix \o seed_portion \o offset_portion
    IN  torch_cuda_set_rng_state(dev, new_state)

\* variant: relative_offset is written instead of offset + relative_offset
RNGStateHelper_advance_torch_state_overwrites(dev, relative_offset) ==
    LET r == torch_cuda_get_rng_state(dev)
    IN  IF r.exc # "none"
        THEN [exc |-> r.exc, dev |-> dev]
        ELSE RNGStateHelper_set_torch_state_tensor(
                 dev,
                 uint8_as_int64(
                     SubSeq(r.ret, PrefixLen + 1, PrefixLen + FieldLen)),
                 relative_offset)

\* [exc, dev]
RNGStateHelper_advance_torch_state(dev, relative_offset) ==
    LET r == torch_cuda_get_rng_state(dev)
    IN  IF r.exc # "none"
        THEN [exc |-> r.exc, dev |-> dev]
        ELSE LET rng_state == r.ret
                 seed == uint8_as_int64(
                             SubSeq(rng_state, PrefixLen + 1, PrefixLen + FieldLen))
                 offset == uint8_as_int64(
                               SubSeq(SubSeq(rng_state, PrefixLen + FieldLen + 1,
                                             Len(rng_state)), 1, FieldLen))
                 new_offset == offset + relative_offset
             IN  RNGStateHelper_set_torch_state_tensor(dev, seed, new_offset)

\* ------------------------------------------------------------------ state
\* tr:   the class attributes of PhiloxStateTracker
\* last: the most recent call and how it ended
\* sess: how far the calls since the last clear() follow the session
\*       clear -> forward -> record -> draws -> backward -> record -> draws,
\*       with the offsets the draws of each phase computed
\* calc: the most recent call of rand_offset_calculator on its own
\* acct: the amounts passed to advance_offset since the last clear(): all of
\*       them, and those passed while fwd_state or bwd_state was running;
\*       kept while no record_state or set_state_from_tensor follows an
\*       advance and only methods of the tracker, rand and rand_like are called
\* host: the device, the most recent call of RNGStateHelper and how it
\*       ended, the (seed, offset) last installed and the amounts
\*       advance_torch_state was handed since
VARIABLES tr, last, sess, calc, acct, host

vars == <<tr, last, sess, calc, acct, host>>

Host(dev, op, exc, arg, ret, base, adv) ==
    [dev |-> dev, op |-> op, exc |-> exc, arg |-> arg, ret |-> ret,
     base |-> base, adv |-> adv]

NoDevice == Host(Device(FALSE, <<>>), "init", "none", <<>>, <<>>, <<0, 0>>, 0)

\* old: the relative offsets (forward, backward, running) when the call began
Last(op, exc, msg, ret, adv, n, dev, old) ==
    [op |-> op, exc |-> exc, msg |-> msg, ret |-> ret, adv |-> adv,
     numel |-> n, dev |-> dev, old |-> old]

RelativeOffsets(t) ==
    <<t.st.fwd.relative_offset, t.st.bwd.relative_offset,
      PhiloxStateTracker_get_current_relative_offset(t)>>

Sess(pos, f, b) == [pos |-> pos, fwd_sum |-> f, bwd_sum |-> b]

Draws == { "rand", "rand_like" }
Reads == { "get_current_relative_offset", "get_accumulated_offsets" }

SessStep(s, op, ok, mode, consumed) ==
    CASE op = "clear" -> Sess("cleared", 0, 0)
      [] op \in Reads -> s
      [] op = "mark_beginning_of_forward" /\ s.pos = "cleared" ->
            Sess("forward", 0, 0)
      [] op = "record_state" /\ ok /\ mode = "forward" /\ s.pos = "forward" ->
            Sess("forward_recorded", 0, 0)
      [] op \in Draws /\ ok /\ s.pos = "forward_recorded" ->
            Sess("forward_recorded", s.fwd_sum + consumed, 0)
      [] op = "mark_beginning_of_backward" /\ s.pos = "forward_recorded" ->
            Sess("backward", s.fwd_sum, 0)
      [] op = "record_state" /\ ok /\ mode = "backward" /\ s.pos = "backward" ->
            Sess("backward_recorded", s.fwd_sum, 0)
      [] op \in Draws /\ ok /\ s.pos = "backward_recorded" ->
            Sess("backward_recorded", s.fwd_sum, s.bwd_sum + consumed)
      [] OTHER -> Sess("off", 0, 0)

Acct(all, phase, clean, advanced) ==
    [all |-> all, phase |-> phase, clean |-> clean, advanced |-> advanced]

AcctAdd(a, amount, running) ==
    Acct(a.all + amount,
         IF running = "own" THEN a.phase ELSE a.phase + amount, TRUE, TRUE)

\* running: the state that is running when the call begins; consumed: what
\* rand_offset_calculator gave a draw
AcctStep(a, op, exc, adv, ret, consumed, running) ==
    CASE op \in {"clear", "mark_end_of_tracing"} -> Acct(0, 0, TRUE, FALSE)
      [] op = "init" -> a
      [] ~a.clean -> a
      [] op = "decomposition" -> Acct(0, 0, FALSE, TRUE)
      [] op \in {"record_state", "set_state_from_tensor"}
           /\ exc = "none" /\ a.advanced -> Acct(0, 0, FALSE, TRUE)
      [] op = "advance_offset" -> AcctAdd(a, ret[1], running)
      [] op \in Draws /\ adv -> AcctAdd(a, consumed, running)
      [] OTHER -> a

Capped(t) ==
    \A k \in {"own", "fwd", "bwd"} :
        /\ t.st[k].relative_offset <= MaxRel
        /\ Len(t.st[k].base_offset) # 0 => t.st[k].base_offset[1] <= MaxBase

ClearedTracker == PhiloxStateTracker_clear(<<>>)

CalcResult(shape, device_property) ==
    LET c == rand_offset_calculator(shape, device_property)
    IN  [shape |-> shape, device_property |-> device_property,
         exc |-> c.exc, offset |-> c.offset]

Init ==
    /\ tr = ClearedTracker
    /\ last = Last("init", "none", "", <<>>, FALSE, 1, "", <<0, 0, 0>>)
    /\ sess = Sess("off", 0, 0)
    /\ acct = Acct(0, 0, TRUE, FALSE)
    /\ host = NoDevice
    /\ calc = CalcResult(<<>>, CHOOSE dp \in DeviceProperties : TRUE)

\* one call of a tracker method or of a registered decomposition
Call(op, exc, msg, ret, adv, n, dev, t2, mode, consumed) ==
    /\ Capped(t2)
    /\ tr' = t2
    /\ last' = Last(op, exc, msg, ret, adv, n, dev, RelativeOffsets(tr))
    /\ sess' = SessStep(sess, op, exc = "none", mode, consumed)
    /\ acct' = AcctStep(acct, op, exc, adv, ret, consumed, tr.running)
    /\ UNCHANGED <<calc, host>>

Call_clear ==
    Call("clear", "none", "", <<>>, FALSE, 1, "",
         PhiloxStateTracker_clear(tr), "", 0)

Call_mark_end_of_tracing ==
    Call("mark_end_of_tracing", "none", "", <<>>, FALSE, 1, "",
         PhiloxStateTracker_mark_end_of_tracing(tr), "", 0)

Call_mark_beginning_of_forward ==
    Call("mark_beginning_of_forward", "none", "", <<>>, FALSE, 1, "",
         PhiloxStateTracker_mark_beginning_of_forward(tr), "", 0)

Call_mark_beginning_of_backward ==
    Call("mark_beginning_of_backward", "none", "", <<>>, FALSE, 1, "",
         PhiloxStateTracker_mark_beginning_of_backward(tr), "", 0)

Call_record_state ==
    \E in \in RecordInputs, mode \in Modes :
        LET r == PhiloxStateTracker_record_state(tr, in[1], in[2], mode)
        IN  Call("record_state", r.exc, mode, in, FALSE, 1, "", r.t, mode, 0)

Call_get_state_as_tensor ==
    LET r == PhiloxStateTracker_get_state_as_tensor(tr)
    IN  Call("get_state_as_tensor", r.exc, "", r.ret, FALSE, 1, "", tr, "", 0)

Call_get_state_as_tuple ==
    LET r == PhiloxStateTracker_get_state_as_tuple(tr)
    IN  Call("get_state_as_tuple", r.exc, "", r.ret, FALSE, 1, "", tr, "", 0)

\* the tensor a successful get_state_as_tensor has just returned
SavedTensors ==
    IF last.op = "get_state_as_tensor" /\ last.exc = "none"
    THEN {last.ret} ELSE {}

Call_set_state_from_tensor ==
    \E x \in StateTensors \cup SavedTensors :
        LET r == PhiloxStateTracker_set_state_from_tensor(tr, x)
        IN  Call("set_state_from_tensor", r.exc, "", x, FALSE, 1, "", r.t, "", 0)

Call_advance_offset ==
    \E consumed_offset \in AdvanceAmounts :
        Call("advance_offset", "none", "", <<consumed_offset>>, TRUE, 1, "",
             PhiloxStateTracker_advance_offset(tr, consumed_offset), "", 0)

Call_get_current_relative_offset ==
    Call("get_current_relative_offset", "none", "",
         <<PhiloxStateTracker_get_current_relative_offset(tr)>>, FALSE, 1, "",
         tr, "", 0)

Call_get_accumulated_offsets ==
    Call("get_accumulated_offsets", "none", "",
         PhiloxStateTracker_get_accumulated_offsets(tr), FALSE, 1, "", tr, "", 0)

\* the registered rand: throw_if_philox_offset_did_not_advance(rand)
Call_rand ==
    \E shape \in Shapes, device \in Devices, dp \in DrawDeviceProperties :
        LET out == throw_if_philox_offset_did_not_advance(
                       tr, rand(tr, dp, shape, device))
        IN  Call("rand", out.exc, out.msg, out.ret, out.adv, numel(shape),
                 device, out.t, "", rand_offset_calculator(shape, dp).offset)

\* the registered rand_like
Call_rand_like ==
    \E shape \in Shapes, x_device \in TensorDevices, device \in Devices,
       dp \in DrawDeviceProperties :
        LET out == throw_if_philox_offset_did_not_advance(
                       tr, rand_like(tr, dp, shape, x_device, device))
        IN  Call("rand_like", out.exc, out.msg, out.ret, out.adv, numel(shape),
                 IF device = "None" THEN x_device ELSE device, out.t, "",
                 rand_offset_calculator(shape, dp).offset)

\* any other implementation registered through register_rng_decomposition
Call_decomposition ==
    \E body \in ImplBodies :
        LET out == throw_if_philox_offset_did_not_advance(
                       tr, run_fn(tr, body, FALSE))
        IN  Call("decomposition", out.exc, out.msg, out.ret, out.adv, 1, "",
                 out.t, "", 0)

Next ==
    \/ Call_clear
    \/ Call_mark_end_of_tracing
    \/ Call_mark_beginning_of_forward
    \/ Call_mark_beginning_of_backward
    \/ Call_record_state
    \/ Call_get_state_as_tensor
    \/ Call_get_state_as_tuple
    \/ Call_set_state_from_tensor
    \/ Call_advance_offset
    \/ Call_get_current_relative_offset
    \/ Call_get_accumulated_offsets
    \/ Call_rand
    \/ Call_rand_like
    \/ Call_decomposition

Spec == Init /\ [][Next]_vars

\* ------------------------------------------ rand_offset_calculator alone
InitCalc ==
    /\ tr = ClearedTracker
    /\ last = Last("init", "none", "", <<>>, FALSE, 1, "", <<0, 0, 0>>)
    /\ sess = Sess("off", 0, 0)
    /\ acct = Acct(0, 0, TRUE, FALSE)
    /\ host = NoDevice
    /\ \E shape \in CalcShapes, dp \in DeviceProperties :
           calc = CalcResult(shape, dp)

Call_rand_offset_calculator ==
    /\ \E shape \in CalcShapes, dp \in DeviceProperties :
           calc' = CalcResult(shape, dp)
    /\ UNCHANGED <<tr, last, sess, acct, host>>

NextCalc == Call_rand_offset_calculator

SpecCalc == InitCalc /\ [][NextCalc]_vars

\* ------------------------------------------------------------ properties
Guarded == { "rand", "rand_like", "decomposition" }
Resets == { "clear", "mark_end_of_tracing" }
Marks == { "mark_beginning_of_forward", "mark_beginning_of_backward" }
RunningRel(t) == PhiloxStateTracker_get_current_relative_offset(t)
EmptyState == [seed |-> <<>>, base_offset |-> <<>>, relative_offset |-> 0]

\* C1: phase isolation.  advance_offset changes nothing but the
\* relative_offset of the state that is running, and a mark_beginning_* call
\* changes no field of the forward or of the backward state, so the phase
\* switched to resumes from the relative_offset it was left with.
PhaseIsolation ==
    [][ /\ last'.op = "advance_offset" =>
              /\ tr'.running = tr.running
              /\ \A k \in {"own", "fwd", "bwd"} :
                    /\ tr'.st[k].seed = tr.st[k].seed
                    /\ tr'.st[k].base_offset = tr.st[k].base_offset
                    /\ k # tr.running =>
                          tr'.st[k].relative_offset = tr.st[k].relative_offset
        /\ last'.op \in Marks =>
              /\ tr'.st.fwd = tr.st.fwd
              /\ tr'.st.bwd = tr.st.bwd
              /\ last'.op = "mark_beginning_of_forward" =>
                    RunningRel(tr') = tr.st.fwd.relative_offset
              /\ last'.op = "mark_beginning_of_backward" =>
                    RunningRel(tr') = tr.st.bwd.relative_offset
      ]_vars

\* forward is resumed after both phases have advanced
PhaseIsolationWitness ==
    /\ last.op = "mark_beginning_of_forward"
    /\ last.old[1] > 0 /\ last.old[2] > 0 /\ last.old[3] = last.old[2]
    /\ RunningRel(tr) = last.old[1]

\* C2: accumulation.  In a session clear -> forward -> record_state ->
\* draws -> backward -> record_state -> draws, the current relative offset
\* after the forward draws is the sum of the offsets rand_offset_calculator
\* gave them, and get_accumulated_offsets() is (that sum, the sum over the
\* backward draws).
Accumulation ==
    /\ sess.pos = "forward_recorded" => RunningRel(tr) = sess.fwd_sum
    /\ sess.pos = "backward" =>
          PhiloxStateTracker_get_accumulated_offsets(tr) = <<sess.fwd_sum, 0>>
    /\ sess.pos = "backward_recorded" =>
          PhiloxStateTracker_get_accumulated_offsets(tr)
              = <<sess.fwd_sum, sess.bwd_sum>>

\* two forward draws and one backward draw, then the accumulated offsets read
AccumulationWitness ==
    /\ sess.pos = "backward_recorded"
    /\ sess.fwd_sum = 8 /\ sess.bwd_sum = 4
    /\ last.op = "get_accumulated_offsets" /\ last.ret = <<8, 4>>

\* C3 as stated: between two resets no tracker operation makes the
\* relative_offset of the forward or of the backward state smaller.
MonotonicRelativeOffset ==
    [][ last'.op \notin Resets =>
            /\ tr'.st.fwd.relative_offset >= tr.st.fwd.relative_offset
            /\ tr'.st.bwd.relative_offset >= tr.st.bwd.relative_offset
      ]_vars

\* C3 (amended): mark_beginning_*, advance_offset with a non-negative
\* amount, the draws and the reads never make the relative_offset of the
\* forward or of the backward state smaller; record_state(.., X) sets the
\* relative_offset of X's state to 0 and set_state_from_tensor sets that of
\* the running state to 0, each leaving the other states' relative_offset
\* as it was.
MonotonicUnlessRestored ==
    [][ /\ last'.op \notin
              (Resets \cup {"record_state", "set_state_from_tensor", "decomposition"})
            => /\ tr'.st.fwd.relative_offset >= tr.st.fwd.relative_offset
               /\ tr'.st.bwd.relative_offset >= tr.st.bwd.relative_offset
        /\ (last'.op = "record_state" /\ last'.exc = "none") =>
              /\ last'.msg = "forward" =>
                    /\ tr'.st.fwd.relative_offset = 0
                    /\ tr'.st.bwd.relative_offset = tr.st.bwd.relative_offset
              /\ last'.msg = "backward" =>
                    /\ tr'.st.bwd.relative_offset = 0
                    /\ tr'.st.fwd.relative_offset = tr.st.fwd.relative_offset
        /\ (last'.op = "set_state_from_tensor" /\ last'.exc = "none") =>
              /\ RunningRel(tr') = 0
              /\ \A k \in {"fwd", "bwd"} : k # tr.running =>
                    tr'.st[k].relative_offset = tr.st[k].relative_offset
      ]_vars

\* record_state on the running forward state after it had advanced
MonotonicUnlessRestoredWitness ==
    /\ last.op = "record_state" /\ last.exc = "none" /\ last.msg = "forward"
    /\ last.old[1] > 0
    /\ tr.st.fwd.relative_offset = 0

\* C4 as stated, in its weakest reading: a guarded invocation during which
\* the implementation does not call advance_offset never returns a result.
GuardCatchesMissingAdvance ==
    (last.op \in Guarded /\ ~last.adv) => last.exc # "none"

\* C4 (amended): a guarded invocation during which the implementation does
\* not call advance_offset and after which the running state's
\* relative_offset is what it was at entry never returns a result: when the
\* implementation returned, the guard raises the offset-stagnation error.
GuardCatchesStagnation ==
    /\ (last.op \in Guarded /\ ~last.adv /\ RunningRel(tr) = last.old[3])
          => last.exc # "none"
    /\ (last.op \in Guarded /\ last.exc = "ValueError"
           /\ last.msg = StagnationMessage)
          => RunningRel(tr) = last.old[3]

\* an implementation that forgot advance_offset is stopped by the guard
GuardCatchesStagnationWitness ==
    /\ last.op = "decomposition" /\ ~last.adv
    /\ last.exc = "ValueError" /\ last.msg = StagnationMessage
    /\ last.old[3] > 0

\* C5: unsupported device.  rand or rand_like for a device whose type is not
\* "cuda" raises the RuntimeError naming that device type and leaves the
\* tracker (running pointer and every field of every state) as it was.
UnsupportedDevice ==
    [][ (last'.op \in Draws /\ last'.dev \notin {"cuda", "None"}) =>
            /\ last'.exc = "RuntimeError"
            /\ last'.msg = last'.dev
            /\ tr' = tr
      ]_vars

\* a cpu draw refused in the middle of a phase that had advanced
UnsupportedDeviceWitness ==
    /\ last.op = "rand" /\ last.dev = "cpu" /\ last.exc = "RuntimeError"
    /\ tr.running = "fwd" /\ PhiloxState_validate_state(tr.st.fwd)
    /\ last.old[1] > 0 /\ RelativeOffsets(tr) = last.old

\* C6: uninitialized state.  A cuda draw or a read of the state while the
\* running state's seed or base_offset is empty raises (the assertion of
\* validate_state) and leaves every relative_offset, indeed the whole
\* tracker, as it was.
UninitializedState ==
    [][ ( /\ \/ last'.op \in Draws /\ last'.dev = "cuda"
             \/ last'.op \in {"get_state_as_tuple", "get_state_as_tensor"}
          /\ ~PhiloxState_validate_state(running_state(tr)) ) =>
            /\ last'.exc = "AssertionError"
            /\ tr' = tr
      ]_vars

\* a draw after record_state(.., "forward") while forward is not running
UninitializedStateWitness ==
    /\ last.op \in Draws /\ last.dev = "cuda" /\ last.exc = "AssertionError"
    /\ tr.running # "fwd" /\ PhiloxState_validate_state(tr.st.fwd)
    /\ ~PhiloxState_validate_state(running_state(tr))
    /\ last.numel >= 1

\* C7: session reset.  After mark_end_of_tracing() the tracker is what
\* clear() leaves: three empty states with relative_offset 0, running_state
\* an object of its own, accumulated offsets (0, 0).  It is the state a
\* process starts in, so what follows depends on later calls only.
SessionReset ==
    last.op = "mark_end_of_tracing" =>
        /\ tr = [running |-> "own",
                 st |-> [own |-> EmptyState, fwd |-> EmptyState,
                         bwd |-> EmptyState]]
        /\ PhiloxStateTracker_get_accumulated_offsets(tr) = <<0, 0>>
        /\ \A k \in {"own", "fwd", "bwd"} : ~PhiloxState_validate_state(tr.st[k])

\* the reset of a session in which both phases had advanced
SessionResetWitness ==
    /\ last.op = "mark_end_of_tracing"
    /\ last.old[1] > 0 /\ last.old[2] > 0
    /\ tr.st.fwd.relative_offset = 0 /\ tr.st.bwd.relative_offset = 0

CeilDiv(a, b) == IF a % b = 0 THEN a \div b ELSE (a \div b) + 1

\* C8: offset formula.  For numel >= 1, core_count >= 1 and
\* max_threads_per_core >= 256, rand_offset_calculator returns
\* (floor((numel - 1) / (256 * grid_size * 4)) + 1) * 4 with grid_size =
\* min(ceil(numel / 256), core_count * floor(max_threads_per_core / 256)),
\* a multiple of 4 that is at least 4.
OffsetFormula ==
    LET n == numel(calc.shape)
        cores == calc.device_property.multi_processor_count
        threads == calc.device_property.max_threads_per_multi_processor
        grid == Min(CeilDiv(n, 256), cores * (threads \div 256))
    IN  (n >= 1 /\ cores >= 1 /\ threads >= 256) =>
            /\ calc.exc = "none"
            /\ calc.offset = (((n - 1) \div (256 * grid * 4)) + 1) * 4
            /\ calc.offset % 4 = 0
            /\ calc.offset >= 4

\* a shape that needs more than one round of the clamped grid
OffsetFormulaWitness ==
    /\ numel(calc.shape) = 1025
    /\ calc.device_property.multi_processor_count = 1
    /\ calc.exc = "none" /\ calc.offset = 8

\* C9: empty shape.  A draw whose shape has numel = 0 does not end in a
\* division by zero.
EmptyShapeNoDivisionByZero ==
    (last.op \in Draws /\ last.numel = 0) => last.exc # "ZeroDivisionError"

\* C10: transport round trip.  set_state_from_tensor(get_state_as_tensor())
\* on an initialized running state (s, b, r) leaves get_state_as_tuple() at
\* (s, b + r); the fields become seed s, base_offset b + r, relative_offset 0.
TransportRoundTrip ==
    [][ ( /\ last.op = "get_state_as_tensor" /\ last.exc = "none"
          /\ last'.op = "set_state_from_tensor" /\ last'.ret = last.ret ) =>
            LET before == running_state(tr)
                after == running_state(tr')
            IN  /\ last'.exc = "none"
                /\ tr'.running = tr.running
                /\ PhiloxStateTracker_get_state_as_tuple(tr')
                      = PhiloxStateTracker_get_state_as_tuple(tr)
                /\ PhiloxStateTracker_get_state_as_tuple(tr').ret
                      = <<before.seed[1],
                          before.base_offset[1] + before.relative_offset>>
                /\ after.seed = before.seed
                /\ after.base_offset
                      = <<before.base_offset[1] + before.relative_offset>>
                /\ after.relative_offset = 0
      ]_vars

\* a round trip of a state that had relative progress: base_offset 8 is
\* installed by no other input
TransportRoundTripWitness ==
    /\ last.op = "set_state_from_tensor" /\ last.exc = "none"
    /\ last.old[3] > 0
    /\ running_state(tr).base_offset = <<8>>
    /\ running_state(tr).relative_offset = 0

\* C13: invalid phase.  record_state with a mode other than "forward" and
\* "backward" raises and leaves the tracker as it was; with a valid mode it
\* sets the named phase's state to (seed, offset, 0), whether or not that
\* phase is running, and leaves the other states and the running pointer.
InvalidPhase ==
    [][ last'.op = "record_state" =>
            /\ last'.msg \notin {"forward", "backward"} =>
                  /\ last'.exc = "AssertionError"
                  /\ tr' = tr
            /\ last'.msg \in {"forward", "backward"} =>
                  LET k == IF last'.msg = "forward" THEN "fwd" ELSE "bwd"
                  IN  /\ last'.exc = "none"
                      /\ tr'.running = tr.running
                      /\ tr'.st[k] = [seed |-> last'.ret[1],
                                      base_offset |-> last'.ret[2],
                                      relative_offset |-> 0]
                      /\ \A j \in {"own", "fwd", "bwd"} :
                            j # k => tr'.st[j] = tr.st[j]
      ]_vars

\* an invalid mode refused while both phases hold recorded, advanced states
InvalidPhaseWitness ==
    /\ last.op = "record_state" /\ last.msg = "inference"
    /\ last.exc = "AssertionError"
    /\ PhiloxState_validate_state(tr.st.fwd)
    /\ PhiloxState_validate_state(tr.st.bwd)
    /\ tr.st.fwd.relative_offset > 0 /\ tr.st.bwd.relative_offset > 0

\* record_state for the phase that is not running
InvalidPhaseOtherWitness ==
    /\ last.op = "record_state" /\ last.msg = "backward" /\ last.exc = "none"
    /\ tr.running = "fwd" /\ tr.st.fwd.relative_offset > 0
    /\ tr.st.bwd.seed = <<2>>

Setters == { "record_state", "set_state_from_tensor" }

\* C14 as stated: once the seed of a phase's state is set, no tracker
\* operation before the next reset changes it.
SeedImmutable ==
    [][ last'.op \notin Resets =>
            \A k \in {"fwd", "bwd"} :
                tr.st[k].seed # <<>> => tr'.st[k].seed = tr.st[k].seed
      ]_vars

\* C14 (amended): once the seed of a phase's state is set, advance_offset,
\* the draws, mark_beginning_* and the reads never change it;
\* record_state(seed, .., X) replaces the seed of X's state by the seed it
\* is given and set_state_from_tensor(x) replaces the seed of the running
\* state by the first element of x, each leaving the other seeds.
SeedChangedOnlyBySetters ==
    [][ /\ last'.op \notin (Resets \cup Setters \cup {"decomposition"}) =>
              \A k \in {"fwd", "bwd"} : tr'.st[k].seed = tr.st[k].seed
        /\ (last'.op = "record_state" /\ last'.exc = "none") =>
              LET k == IF last'.msg = "forward" THEN "fwd" ELSE "bwd"
              IN  /\ tr'.st[k].seed = last'.ret[1]
                  /\ \A j \in {"fwd", "bwd"} :
                        j # k => tr'.st[j].seed = tr.st[j].seed
        /\ (last'.op = "set_state_from_tensor" /\ last'.exc = "none") =>
              /\ running_state(tr').seed = <<last'.ret[1]>>
              /\ \A j \in {"fwd", "bwd"} :
                    j # tr.running => tr'.st[j].seed = tr.st[j].seed
      ]_vars

\* a draw in the backward phase with both seeds set: neither changed
SeedChangedOnlyBySettersWitness ==
    /\ last.op \in Draws /\ last.exc = "none"
    /\ tr.running = "bwd"
    /\ tr.st.fwd.seed = <<1>> /\ tr.st.bwd.seed = <<2>>
    /\ tr.st.fwd.relative_offset > 0

\* C15 as stated: running_state is fwd_state or bwd_state or, when no
\* mark_beginning_* was called since the last clear(), a state that is
\* still empty.
RunningPointerEmptyBeforePhase ==
    /\ tr.running \in {"own", "fwd", "bwd"}
    /\ tr.running = "own" => tr.st.own = EmptyState

\* C15 (amended): running_state is fwd_state or bwd_state or, when no
\* mark_beginning_* was called since the last clear(), the third state that
\* clear() created empty; until running_state is rebound only
\* advance_offset, set_state_from_tensor and the registered implementations
\* change that third state, and only mark_beginning_* and the resets rebind
\* running_state.
RunningPointer ==
    [][ /\ tr'.running \in {"own", "fwd", "bwd"}
        /\ last'.op \in Resets =>
              tr'.running = "own" /\ tr'.st.own = EmptyState
        /\ last'.op = "mark_beginning_of_forward" => tr'.running = "fwd"
        /\ last'.op = "mark_beginning_of_backward" => tr'.running = "bwd"
        /\ last'.op \notin (Resets \cup Marks \cup {"decomposition"}) =>
              tr'.running = tr.running
        /\ tr'.running # "own" => tr'.st.own = EmptyState
        /\ (tr.running = "own" /\ last'.op \notin
               (Resets \cup Marks \cup Guarded
                    \cup {"advance_offset", "set_state_from_tensor"})) =>
              tr'.st.own = tr.st.own
      ]_vars

\* before any phase, the running state populated and advanced
RunningPointerWitness ==
    /\ tr.running = "own"
    /\ PhiloxState_validate_state(tr.st.own)
    /\ tr.st.own.relative_offset > 0
    /\ last.op \in Draws /\ last.exc = "none"

\* C17: no counter reuse within a phase.  A successful draw is given the
\* seed and base_offset + relative_offset read before it advances, then
\* advances the running state alone by a positive amount; the draw that
\* follows it is given the offset where its counter interval ended, so the
\* intervals [offset, offset + consumed) of successive draws do not overlap.
NoCounterReuse ==
    [][ (last'.op \in Draws /\ last'.exc = "none") =>
            LET st == running_state(tr)
                consumed == RunningRel(tr') - RunningRel(tr)
            IN  /\ last'.ret = <<st.seed[1],
                                 st.base_offset[1] + st.relative_offset>>
                /\ consumed > 0
                /\ tr'.running = tr.running
                /\ running_state(tr') =
                      [st EXCEPT !.relative_offset = @ + consumed]
                /\ \A k \in {"own", "fwd", "bwd"} :
                      k # tr.running => tr'.st[k] = tr.st[k]
                /\ EffectiveOffset(running_state(tr')) = last'.ret[2] + consumed
                /\ (last.op \in Draws /\ last.exc = "none") =>
                      /\ last'.ret[1] = last.ret[1]
                      /\ last'.ret[2]
                            = last.ret[2] + (RunningRel(tr) - last.old[3])
                      /\ last'.ret[2] > last.ret[2]
      ]_vars

\* the second of two successive draws of a phase that began at offset 4
NoCounterReuseWitness ==
    /\ last.op \in Draws /\ last.exc = "none"
    /\ tr.running = "bwd" /\ tr.st.bwd.base_offset = <<4>>
    /\ last.old[3] = 4 /\ last.ret = <<2, 8>>
    /\ tr.st.bwd.relative_offset = 8

\* C18: the guard never rejects a correct draw.  The registered rand or
\* rand_like on a cuda device, with the running state initialized and a
\* shape of numel >= 1, advances the relative offset by at least 4 and
\* returns the drawn value: no offset-stagnation error, no other error.
GuardAcceptsCorrectDraw ==
    [][ ( /\ last'.op \in Draws /\ last'.dev = "cuda"
          /\ last'.numel >= 1
          /\ PhiloxState_validate_state(running_state(tr)) ) =>
            /\ last'.exc = "none"
            /\ last'.adv
            /\ RunningRel(tr') >= RunningRel(tr) + curand4_engine_calls
            /\ last'.ret = PhiloxStateTracker_get_state_as_tuple(tr).ret
      ]_vars

\* a 16-element draw, the smallest advance, accepted by the guard
GuardAcceptsCorrectDrawWitness ==
    /\ last.op = "rand_like" /\ last.dev = "cuda" /\ last.exc = "none"
    /\ last.numel = 16
    /\ RunningRel(tr) = last.old[3] + 4

\* C20: default device of rand.  rand with the device omitted fails like
\* rand with a cpu device: the unsupported-device RuntimeError naming "cpu",
\* the tracker left as it was.
DefaultDeviceIsCpu ==
    (last.op = "rand" /\ last.dev = "None") =>
        /\ last.exc = "RuntimeError"
        /\ last.msg = "cpu"

\* C19 as stated: the accumulated offsets add up to the sum of all the
\* amounts passed to advance_offset since the last clear(), those passed
\* before the first mark_beginning_* included.
EveryAdvanceAccounted ==
    acct.clean =>
        LET total == PhiloxStateTracker_get_accumulated_offsets(tr)
        IN  total[1] + total[2] = acct.all

\* C19 (amended): the accumulated offsets add up to the sum of the amounts
\* passed to advance_offset while fwd_state or bwd_state was the running
\* state; the amounts passed before the first mark_beginning_* are added to
\* the third state, which get_accumulated_offsets() does not report and the
\* first mark_beginning_* drops.
PhaseAdvancesAccounted ==
    acct.clean =>
        LET total == PhiloxStateTracker_get_accumulated_offsets(tr)
        IN  /\ total[1] + total[2] = acct.phase
            /\ tr.running = "own" =>
                  tr.st.own.relative_offset = acct.all - acct.phase

\* advances before the first phase, then advances in both phases
PhaseAdvancesAccountedWitness ==
    /\ acct.clean /\ acct.all = 12 /\ acct.phase = 8
    /\ tr.st.fwd.relative_offset = 4 /\ tr.st.bwd.relative_offset = 4
    /\ last.op = "get_accumulated_offsets" /\ last.ret = <<4, 4>>

\* ----------------------------------------------------- RNGStateHelper alone
HostOps ==
    { "get_torch_state_as_tuple", "set_torch_state_tensor", "advance_torch_state" }

InitHost ==
    /\ tr = ClearedTracker
    /\ last = Last("init", "none", "", <<>>, FALSE, 1, "", <<0, 0, 0>>)
    /\ sess = Sess("off", 0, 0)
    /\ acct = Acct(0, 0, TRUE, FALSE)
    /\ calc = CalcResult(<<>>, CHOOSE dp \in DeviceProperties : TRUE)
    /\ \/ host = NoDevice
       \/ \E held \in HostInitial :
              host = Host(Device(TRUE, DeviceBuffer(held[1], held[2])), "init",
                          "none", <<>>, <<>>, held, 0)

Call_get_torch_state_as_tuple ==
    /\ LET r == RNGStateHelper_get_torch_state_as_tuple(host.dev)
       IN  host' = Host(host.dev, "get_torch_state_as_tuple", r.exc, <<>>,
                        r.ret, host.base, host.adv)
    /\ UNCHANGED <<tr, last, sess, calc, acct>>

Call_set_torch_state_tensor ==
    /\ \E seed \in HostSeeds, offset \in HostOffsets :
           LET r == RNGStateHelper_set_torch_state_tensor(host.dev, seed, offset)
           IN  host' = Host(r.dev, "set_torch_state_tensor", r.exc,
                            <<seed, offset>>, <<>>, <<seed, offset>>, 0)
    /\ UNCHANGED <<tr, last, sess, calc, acct>>

Call_advance_torch_state ==
    /\ \E relative_offset \in HostAdvances :
           /\ host.adv + relative_offset <= MaxHostAdvance
           /\ LET r == RNGStateHelper_advance_torch_state(host.dev, relative_offset)
              IN  host' = Host(r.dev, "advance_torch_state", r.exc,
                               <<relative_offset>>, <<>>, host.base,
                               host.adv + relative_offset)
    /\ UNCHANGED <<tr, last, sess, calc, acct>>

NextHost ==
    \/ Call_get_torch_state_as_tuple
    \/ Call_set_torch_state_tensor
    \/ Call_advance_torch_state

SpecHost == InitHost /\ [][NextHost]_vars

\* the (seed, offset) the device buffer holds, read field by field
HeldSeed(dev) ==
    uint8_as_int64(SubSeq(dev.rng_state, PrefixLen + 1, PrefixLen + FieldLen))
HeldOffset(dev) ==
    uint8_as_int64(SubSeq(dev.rng_state, PrefixLen + FieldLen + 1,
                          PrefixLen + 2 * FieldLen))

\* C11: host state round trip.  With a device, the buffer installed by
\* set_torch_state_tensor(seed, offset) is 800 prefix bytes, the same at
\* every write, then the 8 seed bytes at 800-807 and the 8 offset bytes at
\* 808-815, and get_torch_state_as_tuple() right after it returns
\* (seed, offset).
HostRoundTrip ==
    [][ /\ (host'.op = "set_torch_state_tensor" /\ host.dev.available) =>
              LET b == host'.dev.rng_state
              IN  /\ host'.exc = "none"
                  /\ Len(b) = 816
                  /\ \A i \in 1..800 : b[i] = 255
                  /\ SubSeq(b, 1, 800) = SubSeq(host.dev.rng_state, 1, 800)
                  /\ HeldSeed(host'.dev) = host'.arg[1]
                  /\ HeldOffset(host'.dev) = host'.arg[2]
                  /\ host'.arg[1] = 300 =>
                        SubSeq(b, 801, 808) = <<44, 1, 0, 0, 0, 0, 0, 0>>
                  /\ host'.arg[1] = -1 =>
                        SubSeq(b, 801, 808)
                            = <<255, 255, 255, 255, 255, 255, 255, 255>>
                  /\ host'.arg[2] = 250 =>
                        SubSeq(b, 809, 816) = <<250, 0, 0, 0, 0, 0, 0, 0>>
        /\ ( /\ host.op = "set_torch_state_tensor" /\ host.dev.available
             /\ host'.op = "get_torch_state_as_tuple" ) =>
              /\ host'.exc = "none"
              /\ host'.ret = host.arg
      ]_vars

\* (-1, 250) read back after it replaced another state
HostRoundTripWitness ==
    /\ host.dev.available
    /\ host.op = "get_torch_state_as_tuple" /\ host.ret = <<-1, 250>>
    /\ host.base = <<-1, 250>> /\ host.adv = 0

\* C12: advance_torch_state(k) on a device holding (seed, offset) leaves it
\* holding (seed, offset + k), prefix untouched; successive calls add up:
\* the device holds the offset last installed plus the sum of the amounts.
HostAdvance ==
    [][ (host'.op = "advance_torch_state" /\ host.dev.available) =>
            /\ host'.exc = "none"
            /\ Len(host'.dev.rng_state) = Len(host.dev.rng_state)
            /\ SubSeq(host'.dev.rng_state, 1, 800)
                  = SubSeq(host.dev.rng_state, 1, 800)
            /\ HeldSeed(host'.dev) = HeldSeed(host.dev)
            /\ HeldOffset(host'.dev) = HeldOffset(host.dev) + host'.arg[1]
            /\ HeldSeed(host'.dev) = host'.base[1]
            /\ HeldOffset(host'.dev) = host'.base[2] + host'.adv
      ]_vars

\* 250 advanced by 4, 1 and 1: the carry into the second offset byte
HostAdvanceWitness ==
    /\ host.dev.available /\ host.op = "advance_torch_state"
    /\ host.base = <<300, 250>> /\ host.adv = 6
    /\ SubSeq(host.dev.rng_state, 809, 810) = <<0, 1>>

\* C16: absent device.  Without a cuda device get_torch_state_as_tuple()
\* returns (0, 0), and set_torch_state_tensor and advance_torch_state
\* complete without raising.
AbsentDevice ==
    (host.op \in HostOps /\ ~host.dev.available) =>
        /\ host.exc = "none"
        /\ host.op = "get_torch_state_as_tuple" => host.ret = <<0, 0>>

====
